---- MODULE Spec2Model ----
(***************************************************************************)
(* Model of the Highrise music bot (src/index.js): the poll loop that      *)
(* drains bot_inbox, appends resolved songs to musicQueue, persists the    *)
(* queue under music_queue with optimistic version tokens, and runs the    *)
(* two-state playback scheduler.                                           *)
(*                                                                         *)
(* Text is a TLA+ string and a character is a string of length 1.  The     *)
(* characters of the model are the printable ASCII characters other than   *)
(* the backtick, and the tab, the line feed, the form feed and the         *)
(* carriage return.  The numbers of the model are the integers; the        *)
(* deadline of a song may also be NaN, Infinity or -Infinity, and a JSON   *)
(* number that rounds to Infinity or to 0 as a double is that.  A          *)
(* character or a number outside these (a fraction, the character that an  *)
(* escape such as \b or a code above 126 stands for) is left unspecified:  *)
(* no specification of this module meets one.  The operators on text       *)
(* recurse once per escape of a string and once per element of a list.     *)
(***************************************************************************)
EXTENDS Integers, Sequences, FiniteSets, TLC

\* ------------------------------------------------------------------------
\* Characters
\* ------------------------------------------------------------------------
QUOTE == "\""

BACKSLASH == "\\"

\* the i-th character of s
Char(s, i) == SubSeq(s, i, i)

\* s without its first n characters
Rest(s, n) == SubSeq(s, n + 1, Len(s))

DigitChars == "0123456789"

DigitSet == {Char(DigitChars, i) : i \in 1..10}

DigitValue(d) == (CHOOSE i \in 1..10 : Char(DigitChars, i) = d) - 1

HexLower == "0123456789abcdef"

HexUpper == "0123456789ABCDEF"

HexSet == {Char(HexLower, i) : i \in 1..16} \cup {Char(HexUpper, i) : i \in 1..16}

HexDigitValue(d) ==
    (CHOOSE i \in 1..16 : Char(HexLower, i) = d \/ Char(HexUpper, i) = d) - 1

\* the characters with the codes 32 to 95 and 97 to 126
AsciiLow == " !\"#$%&'()*+,-./0123456789:;<=>?@ABCDEFGHIJKLMNOPQRSTUVWXYZ[\\]^_"

AsciiHigh == "abcdefghijklmnopqrstuvwxyz{|}~"

\* a character the model does not have
NoChar == CHOOSE c \in {} : TRUE

\* the character with code unit c
CharOfCode(c) ==
    CASE c >= 32 /\ c <= 95 -> Char(AsciiLow, c - 31)
      [] c >= 97 /\ c <= 126 -> Char(AsciiHigh, c - 96)
      [] c = 9 -> "\t"
      [] c = 10 -> "\n"
      [] c = 12 -> "\f"
      [] c = 13 -> "\r"
      [] OTHER -> NoChar

\* the characters below U+0020
ControlChars == {"\t", "\n", "\f", "\r"}

\* ------------------------------------------------------------------------
\* JavaScript values
\* ------------------------------------------------------------------------
Undefined == [t |-> "undefined"]

Null == [t |-> "null"]

Bool(b) == [t |-> "boolean", b |-> b]

Num(n) == [t |-> "number", n |-> n]

\* the numbers that are no integers, as far as a deadline can be one
NaN == [t |-> "NaN"]

Infinity == [t |-> "Infinity"]

NegInfinity == [t |-> "-Infinity"]

\* a number the model does not hold
NoNumber == CHOOSE n \in {} : TRUE

Str(s) == [t |-> "string", s |-> s]

\* an object keeps its properties in the order of its own keys:
\* << <<key, value>>, ... >>
Obj(p) == [t |-> "object", p |-> p]

Arr(a) == [t |-> "array", a |-> a]

RECURSIVE NatToStr(_)
NatToStr(n) ==
    IF n < 10 THEN Char(DigitChars, n + 1)
    ELSE NatToStr(n \div 10) \o Char(DigitChars, (n % 10) + 1)

\* String(n) for an integer: its decimal digits after the sign
NumToStr(n) == IF n < 0 THEN "-" \o NatToStr(-n) ELSE NatToStr(n)

\* truthiness, as used by `a || b`, `if (x)` and `x && y`
Truthy(v) ==
    CASE v.t = "undefined" -> FALSE
      [] v.t = "null" -> FALSE
      [] v.t = "boolean" -> v.b
      [] v.t = "number" -> v.n # 0
      [] v.t = "string" -> v.s # ""
      [] v.t = "NaN" -> FALSE
      [] OTHER -> TRUE

\* a || b
OrElse(a, b) == IF Truthy(a) THEN a ELSE b

\* reading a property of null or undefined throws a TypeError
PropThrows(v) == v.t \in {"null", "undefined"}

HasProp(v, key) == v.t = "object" /\ \E i \in 1..Len(v.p) : v.p[i][1] = key

\* v.key (for a v that does not throw) for a key Object.prototype does not
\* define: own property, else undefined
GetProp(v, key) ==
    IF HasProp(v, key)
    THEN v.p[CHOOSE i \in 1..Len(v.p) : v.p[i][1] = key][2]
    ELSE Undefined

RECURSIVE AllDigits(_)
AllDigits(s) == s = "" \/ (Char(s, 1) \in DigitSet /\ AllDigits(Rest(s, 1)))

RECURSIVE DigitsLess(_, _)
\* a < b for two digit strings of the same length
DigitsLess(a, b) ==
    /\ a # ""
    /\ \/ DigitValue(Char(a, 1)) < DigitValue(Char(b, 1))
       \/ Char(a, 1) = Char(b, 1) /\ DigitsLess(Rest(a, 1), Rest(b, 1))

\* the largest array index, 2^32 - 2
MaxIndexKey == "4294967294"

\* an integer-like key: the canonical decimal form of an array index
IsIndexKey(key) ==
    /\ key # ""
    /\ AllDigits(key)
    /\ Len(key) = 1 \/ Char(key, 1) # "0"
    /\ \/ Len(key) < Len(MaxIndexKey)
       \/ Len(key) = Len(MaxIndexKey) /\ ~DigitsLess(MaxIndexKey, key)

\* index key a comes before index key b
IndexKeyLess(a, b) ==
    Len(a) < Len(b) \/ (Len(a) = Len(b) /\ DigitsLess(a, b))

\* the place of a new key among the own keys: integer-like keys come first,
\* in ascending order, the other keys follow in the order of their creation
KeyPlace(p, key) ==
    IF IsIndexKey(key)
    THEN 1 + Cardinality({i \in 1..Len(p) :
                             IsIndexKey(p[i][1]) /\ IndexKeyLess(p[i][1], key)})
    ELSE Len(p) + 1

\* obj.key = val: replaces the value of an own property in place, or
\* creates the property
SetProp(v, key, val) ==
    IF HasProp(v, key)
    THEN Obj([i \in 1..Len(v.p) |->
                 IF v.p[i][1] = key THEN <<key, val>> ELSE v.p[i]])
    ELSE LET k == KeyPlace(v.p, key) IN
         Obj(SubSeq(v.p, 1, k - 1) \o << <<key, val>> >> \o SubSeq(v.p, k, Len(v.p)))

RECURSIVE ToStrThrows(_)
\* String(v) throws a TypeError: an object with an own property toString,
\* which in a value built by JSON.parse is never a function, has no
\* conversion to a primitive; an array converts its elements
ToStrThrows(v) ==
    CASE v.t = "object" -> HasProp(v, "toString")
      [] v.t = "array" -> \E i \in 1..Len(v.a) : ToStrThrows(v.a[i])
      [] OTHER -> FALSE

RECURSIVE ToStr(_)
RECURSIVE JoinElems(_)
\* String(v), as applied by a template literal `${v}`, where it does not
\* throw
ToStr(v) ==
    CASE v.t = "string" -> v.s
      [] v.t = "number" -> NumToStr(v.n)
      [] v.t = "boolean" -> IF v.b THEN "true" ELSE "false"
      [] v.t = "null" -> "null"
      [] v.t = "undefined" -> "undefined"
      [] v.t = "array" -> JoinElems(v.a)
      [] v.t = "NaN" -> "NaN"
      [] v.t = "Infinity" -> "Infinity"
      [] v.t = "-Infinity" -> "-Infinity"
      [] OTHER -> "[object Object]"

\* Array.prototype.join: null and undefined give the empty string
JoinElems(a) ==
    IF a = <<>> THEN ""
    ELSE (IF a[1].t \in {"null", "undefined"} THEN "" ELSE ToStr(a[1]))
         \o (IF Len(a) > 1 THEN "," \o JoinElems(Tail(a)) ELSE "")

\* ------------------------------------------------------------------------
\* JSON.stringify and JSON.parse
\* ------------------------------------------------------------------------
\* a character inside a JSON string, as JSON.stringify writes it
EscapeChar(c) ==
    CASE c = QUOTE -> "\\\""
      [] c = BACKSLASH -> "\\\\"
      [] c = "\t" -> "\\t"
      [] c = "\n" -> "\\n"
      [] c = "\f" -> "\\f"
      [] c = "\r" -> "\\r"
      [] OTHER -> c

\* the characters JSON.stringify writes with a backslash
Escaped == {QUOTE, BACKSLASH} \cup ControlChars

RECURSIVE PlainEnd(_, _)
\* the first index from i on that holds a quote, a backslash or a control
\* character (looked for sixteen characters at a time)
PlainEnd(s, i) ==
    IF i > Len(s) THEN i
    ELSE LET last == IF i + 15 < Len(s) THEN i + 15 ELSE Len(s)
             stops == {k \in i..last : Char(s, k) \in Escaped}
         IN IF stops = {} THEN PlainEnd(s, last + 1)
            ELSE CHOOSE k \in stops : \A m \in stops : k <= m

RECURSIVE EscapeRange(_, _, _)
\* the characters i..j of s as JSON.stringify writes them: a range without
\* a character to escape as it is, any other range half by half
EscapeRange(s, i, j) ==
    IF \A k \in i..j : Char(s, k) \notin Escaped THEN SubSeq(s, i, j)
    ELSE IF i = j THEN EscapeChar(Char(s, i))
    ELSE EscapeRange(s, i, (i + j) \div 2) \o EscapeRange(s, (i + j) \div 2 + 1, j)

\* the characters of s as JSON.stringify writes them inside the quotes
Escape(s) == EscapeRange(s, 1, Len(s))

QuoteStr(s) == QUOTE \o Escape(s) \o QUOTE

RECURSIVE Stringify(_)
RECURSIVE StringifyProps(_, _)
RECURSIVE StringifyElems(_)
\* JSON.stringify(v)
Stringify(v) ==
    CASE v.t = "null" -> "null"
      [] v.t = "boolean" -> IF v.b THEN "true" ELSE "false"
      [] v.t = "number" -> NumToStr(v.n)
      [] v.t = "string" -> QuoteStr(v.s)
      [] v.t = "array" -> "[" \o StringifyElems(v.a) \o "]"
      [] v.t = "object" -> "{" \o StringifyProps(v.p, TRUE) \o "}"
      [] OTHER -> "null"

\* properties whose value is undefined are left out
StringifyProps(p, first) ==
    IF p = <<>> THEN ""
    ELSE IF p[1][2].t = "undefined" THEN StringifyProps(Tail(p), first)
    ELSE (IF first THEN "" ELSE ",")
         \o QuoteStr(p[1][1]) \o ":" \o Stringify(p[1][2])
         \o StringifyProps(Tail(p), FALSE)

StringifyElems(a) ==
    IF a = <<>> THEN ""
    ELSE Stringify(a[1])
         \o (IF Len(a) > 1 THEN "," \o StringifyElems(Tail(a)) ELSE "")

\* the parser reads text s from index i on and gives the value with the
\* index of the first character after it
ParseFail == [ok |-> FALSE, v |-> Undefined, next |-> 0]

ParseOk(v, next) == [ok |-> TRUE, v |-> v, next |-> next]

\* character i of s is c
At(s, i, c) == i \in 1..Len(s) /\ Char(s, i) = c

\* text w stands in s at index i
StartsWith(s, i, w) ==
    i + Len(w) - 1 <= Len(s) /\ SubSeq(s, i, i + Len(w) - 1) = w

\* the whitespace of JSON
Whitespace == {" ", "\t", "\n", "\r"}

RECURSIVE SkipWs(_, _)
\* the first index from i on that holds no whitespace
SkipWs(s, i) ==
    IF i <= Len(s) /\ Char(s, i) \in Whitespace THEN SkipWs(s, i + 1) ELSE i

RECURSIVE DigitsEnd(_, _)
\* the first index from i on that holds no digit
DigitsEnd(s, i) ==
    IF i <= Len(s) /\ Char(s, i) \in DigitSet THEN DigitsEnd(s, i + 1) ELSE i

RECURSIVE ParseDigits(_, _)
\* the number a run of digits denotes
ParseDigits(s, acc) ==
    IF s = "" THEN acc
    ELSE ParseDigits(Rest(s, 1), 10 * acc + DigitValue(Char(s, 1)))

RECURSIVE StripZeros(_)
\* a run of digits without the zeros at its end
StripZeros(s) ==
    IF s # "" /\ Char(s, Len(s)) = "0" THEN StripZeros(SubSeq(s, 1, Len(s) - 1))
    ELSE s

RECURSIVE Pow10(_)
Pow10(k) == IF k = 0 THEN 1 ELSE 10 * Pow10(k - 1)

\* m * 10^e
Scaled(m, e) ==
    IF m = 0 THEN 0
    ELSE IF e >= 0 THEN m * Pow10(e)
    ELSE IF m % Pow10(-e) = 0 THEN m \div Pow10(-e)
    ELSE NoNumber

RECURSIVE StripLeadingZeros(_)
\* a run of digits without the zeros at its start
StripLeadingZeros(s) ==
    IF s # "" /\ Char(s, 1) = "0" THEN StripLeadingZeros(Rest(s, 1)) ELSE s

\* the digits of 2^1024 - 2^970, 309 of them: the number half way between
\* the largest double, (2^53 - 1) * 2^971, and 2^1024.  A number from there
\* on rounds to Infinity (the tie goes to the even significand, 2^1024).
OverflowDigits ==
    "179769313486231580793728971405303415079934132710037826936173"
    \o "778980444968292764750946649017977587207096330286416692887910"
    \o "946555547851940402630657488671505820681908902000708383676273"
    \o "854845817711531764475730270069855571366959622842914819860834"
    \o "936475292719074168444365510704342711559699508093042880177904"
    \o "174497792"

\* the digits of 5^1075, 752 of them: 2^-1075 = 5^1075 * 10^-1075 is half
\* the smallest double, 2^-1074.  A number up to there rounds to 0 (the tie
\* goes to the even significand, 0).
UnderflowDigits ==
    "247032822920623272088284396434110686182529901307162382212792"
    \o "841250337753635104375932649918180817996189898282347722858865"
    \o "463328355177969898199387398005390939063150356595155702263922"
    \o "908583924491051844359318028499365361525003193704576782492193"
    \o "656236698636584807570015857692699037063119282795585513329278"
    \o "343384093519780155312465972635795746227664652728272200563740"
    \o "064854999770965994704540208281662262378573934507363390079677"
    \o "619305775067401763246736009689513405355374585166611342237666"
    \o "786041621596804619144672918403005300575308490487653917113865"
    \o "916462395249126236538818796362393732804238910186723484976682"
    \o "350898633885879256283027559956575244555072551893136908362547"
    \o "791869486679949683240497058210285131854513962138377228261454"
    \o "37693412532098591327667236328125"

\* the digit at place i of the fraction 0.s
FractionDigit(s, i) == IF i <= Len(s) THEN DigitValue(Char(s, i)) ELSE 0

\* 0.a < 0.b for runs of digits a and b: at the first place where they
\* differ, a has the smaller digit
FractionLess(a, b) ==
    \E i \in 1..(IF Len(a) > Len(b) THEN Len(a) ELSE Len(b)) :
        /\ FractionDigit(a, i) < FractionDigit(b, i)
        /\ \A j \in 1..(i - 1) : FractionDigit(a, j) = FractionDigit(b, j)

\* 0.digits * 10^k, digits without a leading zero, rounds to Infinity:
\* it is at least 0.OverflowDigits * 10^309
BeyondDouble(digits, k) ==
    /\ digits # ""
    /\ \/ k > Len(OverflowDigits)
       \/ k = Len(OverflowDigits) /\ ~FractionLess(digits, OverflowDigits)

\* 0.digits * 10^k rounds to 0: it is at most 0.UnderflowDigits * 10^-323
BelowDouble(digits, k) ==
    \/ digits = ""
    \/ k < Len(UnderflowDigits) - 1075
    \/ k = Len(UnderflowDigits) - 1075 /\ ~FractionLess(UnderflowDigits, digits)

\* the double nearest to digits * 10^e, digits without a leading zero:
\* Infinity, 0 (the code's -0 behaves as 0 wherever the bot uses it), or
\* the integer itself
Magnitude(neg, digits, e) ==
    IF BeyondDouble(digits, Len(digits) + e)
    THEN (IF neg THEN NegInfinity ELSE Infinity)
    ELSE IF BelowDouble(digits, Len(digits) + e)
    THEN Num(0)
    ELSE IF neg THEN Num(-Scaled(ParseDigits(digits, 0), e))
    ELSE Num(Scaled(ParseDigits(digits, 0), e))

\* the value of the decimal int.frac * 10^exp
Decimal(neg, int, frac, exp) ==
    Magnitude(neg, StripLeadingZeros(int \o StripZeros(frac)),
              exp - Len(StripZeros(frac)))

\* the parts of a decimal literal that starts at i, with its digits up to
\* i2, its fraction up to i3, its exponent's digits from i4 up to i5
DecimalParts(s, i, i2, i3, i4, i5) ==
    [int |-> SubSeq(s, i, i2 - 1),
     hasFrac |-> i3 > i2,
     frac |-> IF i3 > i2 THEN SubSeq(s, i2 + 1, i3 - 1) ELSE "",
     hasExp |-> i4 > i3,
     expNeg |-> i4 = i3 + 2 /\ Char(s, i3 + 1) = "-",
     exp |-> IF i4 > i3 THEN SubSeq(s, i4, i5 - 1) ELSE "",
     next |-> i5]

\* the exponent, its digits starting at i4
ScanExpDigits(s, i, i2, i3, i4) ==
    DecimalParts(s, i, i2, i3, i4, DigitsEnd(s, i4))

\* after the fraction: e or E, a sign, digits
ScanExp(s, i, i2, i3) ==
    IF At(s, i3, "e") \/ At(s, i3, "E")
    THEN ScanExpDigits(s, i, i2, i3,
                       IF At(s, i3 + 1, "+") \/ At(s, i3 + 1, "-")
                       THEN i3 + 2 ELSE i3 + 1)
    ELSE DecimalParts(s, i, i2, i3, i3, i3)

\* after the digits: a point and digits
ScanFrac(s, i, i2) ==
    ScanExp(s, i, i2, IF At(s, i2, ".") THEN DigitsEnd(s, i2 + 1) ELSE i2)

\* digits, a fraction and an exponent in s from index i on: the parts of a
\* decimal literal (the digits before or after the point may be missing)
ScanDecimal(s, i) == ScanFrac(s, i, DigitsEnd(s, i))

\* the number the digits of an exponent denote; one of more than six
\* digits is read as 10^6, which gives the same double (Infinity or 0) for
\* every text of fewer than 10^5 digits
ExpDigits(digits) ==
    IF Len(digits) > 6 THEN 1000000 ELSE ParseDigits(digits, 0)

\* the exponent read by ScanDecimal
ScannedExp(d) ==
    IF ~d.hasExp THEN 0
    ELSE IF d.expNeg THEN -ExpDigits(StripLeadingZeros(d.exp))
    ELSE ExpDigits(StripLeadingZeros(d.exp))

\* a JSON number with parts d: int without a leading zero, a fraction and
\* an exponent with at least one digit
NumberOf(neg, d) ==
    IF \/ d.int = ""
       \/ Len(d.int) > 1 /\ Char(d.int, 1) = "0"
       \/ d.hasFrac /\ d.frac = ""
       \/ d.hasExp /\ d.exp = ""
    THEN ParseFail
    ELSE ParseOk(Decimal(neg, d.int, d.frac, ScannedExp(d)), d.next)

\* a JSON number at index i: -? int frac? exp?
ParseNumber(s, i) ==
    IF At(s, i, "-") THEN NumberOf(TRUE, ScanDecimal(s, i + 1))
    ELSE NumberOf(FALSE, ScanDecimal(s, i))

\* the character a one-letter escape stands for
Unescaped(e) ==
    CASE e = "n" -> "\n"
      [] e = "t" -> "\t"
      [] e = "r" -> "\r"
      [] e = "f" -> "\f"
      [] e = "b" -> NoChar
      [] OTHER -> e

RECURSIVE HexValue(_, _)
HexValue(s, acc) ==
    IF s = "" THEN acc
    ELSE HexValue(Rest(s, 1), 16 * acc + HexDigitValue(Char(s, 1)))

RECURSIVE ParseStrBody(_, _, _)
\* the characters of a JSON string from index i (after the opening quote)
\* up to its closing quote: escapes are replaced, a control character is an
\* error
ParseStrBody(s, i, acc) ==
    LET j == PlainEnd(s, i) IN
    IF j > Len(s) THEN ParseFail
    ELSE IF Char(s, j) = QUOTE THEN ParseOk(Str(acc \o SubSeq(s, i, j - 1)), j + 1)
    ELSE IF Char(s, j) # BACKSLASH THEN ParseFail
    ELSE IF j + 1 <= Len(s) /\ Char(s, j + 1) \in {QUOTE, BACKSLASH, "/", "b",
                                                   "f", "n", "r", "t"}
         THEN ParseStrBody(s, j + 2,
                           acc \o SubSeq(s, i, j - 1) \o Unescaped(Char(s, j + 1)))
    ELSE IF /\ j + 5 <= Len(s)
            /\ Char(s, j + 1) = "u"
            /\ \A k \in (j + 2)..(j + 5) : Char(s, k) \in HexSet
         THEN ParseStrBody(s, j + 6,
                           acc \o SubSeq(s, i, j - 1)
                               \o CharOfCode(HexValue(SubSeq(s, j + 2, j + 5), 0)))
    ELSE ParseFail

\* CreateDataProperty while parsing: a later duplicate of a key replaces the
\* earlier value, in place
PutMember(p, key, val) == SetProp(Obj(p), key, val).p

RECURSIVE ParseValue(_, _)
RECURSIVE ParseMembers(_, _, _)
RECURSIVE ParseElems(_, _, _)
\* after a member: } or , and the next member
MemberNext(s, acc, next) ==
    IF At(s, next, "}") THEN ParseOk(Obj(acc), next + 1)
    ELSE IF At(s, next, ",") THEN ParseMembers(s, SkipWs(s, next + 1), acc)
    ELSE ParseFail

\* the member's value v
MemberValue(s, acc, key, v) ==
    IF ~v.ok THEN ParseFail
    ELSE MemberNext(s, PutMember(acc, key, v.v), SkipWs(s, v.next))

\* the colon after the member's key
MemberColon(s, acc, key, colon) ==
    IF ~At(s, colon, ":") THEN ParseFail
    ELSE MemberValue(s, acc, key, ParseValue(s, colon + 1))

\* the member's key k
MemberKey(s, acc, k) ==
    IF ~k.ok THEN ParseFail
    ELSE MemberColon(s, acc, k.v.s, SkipWs(s, k.next))

\* "key" : value followed by , or }, with whitespace between the tokens
ParseMembers(s, i, acc) ==
    IF ~At(s, i, QUOTE) THEN ParseFail
    ELSE MemberKey(s, acc, ParseStrBody(s, i + 1, ""))

\* after an element: ] or , and the next element
ElemNext(s, acc, next) ==
    IF At(s, next, "]") THEN ParseOk(Arr(acc), next + 1)
    ELSE IF At(s, next, ",") THEN ParseElems(s, next + 1, acc)
    ELSE ParseFail

\* the element v
ElemValue(s, acc, v) ==
    IF ~v.ok THEN ParseFail
    ELSE ElemNext(s, Append(acc, v.v), SkipWs(s, v.next))

\* value followed by , or ], with whitespace between the tokens
ParseElems(s, i, acc) == ElemValue(s, acc, ParseValue(s, i))

\* after {: } or the members
ObjectAt(s, m) ==
    IF At(s, m, "}") THEN ParseOk(Obj(<<>>), m + 1) ELSE ParseMembers(s, m, <<>>)

\* after [: ] or the elements
ArrayAt(s, m) ==
    IF At(s, m, "]") THEN ParseOk(Arr(<<>>), m + 1) ELSE ParseElems(s, m, <<>>)

\* the JSON value whose first character is at index i
ValueAt(s, i) ==
    IF i > Len(s) THEN ParseFail
    ELSE CASE StartsWith(s, i, "null") -> ParseOk(Null, i + 4)
           [] StartsWith(s, i, "true") -> ParseOk(Bool(TRUE), i + 4)
           [] StartsWith(s, i, "false") -> ParseOk(Bool(FALSE), i + 5)
           [] Char(s, i) = "-" \/ Char(s, i) \in DigitSet -> ParseNumber(s, i)
           [] Char(s, i) = QUOTE -> ParseStrBody(s, i + 1, "")
           [] Char(s, i) = "{" -> ObjectAt(s, SkipWs(s, i + 1))
           [] Char(s, i) = "[" -> ArrayAt(s, SkipWs(s, i + 1))
           [] OTHER -> ParseFail

\* whitespace and a JSON value in s from index i on
ParseValue(s, i) == ValueAt(s, SkipWs(s, i))

\* the text is one value r with nothing but whitespace after it
WholeText(s, r) ==
    IF r.ok /\ SkipWs(s, r.next) > Len(s) THEN [ok |-> TRUE, v |-> r.v]
    ELSE [ok |-> FALSE, v |-> Undefined]

\* JSON.parse(s): the value, or a SyntaxError (ok = FALSE) when s is not
\* one JSON text with whitespace around it
JSONparse(s) == WholeText(s, ParseValue(s, 1))

\* ------------------------------------------------------------------------
\* ToNumber, as applied by currentSong.duration * 1000
\* ------------------------------------------------------------------------
\* the whitespace StringToNumber strips
StrWhitespace == {" ", "\t", "\n", "\f", "\r"}

RECURSIVE TrimLeft(_)
TrimLeft(s) ==
    IF s # "" /\ Char(s, 1) \in StrWhitespace THEN TrimLeft(Rest(s, 1)) ELSE s

RECURSIVE TrimRight(_)
TrimRight(s) ==
    IF s # "" /\ Char(s, Len(s)) \in StrWhitespace
    THEN TrimRight(SubSeq(s, 1, Len(s) - 1))
    ELSE s

RECURSIVE RadixValue(_, _, _)
\* the digits of s in base `radix`, or -1 when one is not a digit of it
RadixValue(s, radix, acc) ==
    IF s = "" THEN acc
    ELSE IF Char(s, 1) \in HexSet /\ HexDigitValue(Char(s, 1)) < radix
         THEN RadixValue(Rest(s, 1), radix, radix * acc + HexDigitValue(Char(s, 1)))
         ELSE -1

\* 0x.., 0o.., 0b..: the radix, or 0
RadixOf(s) ==
    IF Len(s) < 3 \/ Char(s, 1) # "0" THEN 0
    ELSE CASE Char(s, 2) \in {"x", "X"} -> 16
           [] Char(s, 2) \in {"o", "O"} -> 8
           [] Char(s, 2) \in {"b", "B"} -> 2
           [] OTHER -> 0

\* the number of the digits n read in a radix, -1 standing for no number
RadixNumber(n) == IF n < 0 THEN NaN ELSE Num(n)

\* a decimal literal u with parts d, all of u
DecimalNumber(neg, u, d) ==
    IF /\ d.next > Len(u)
       /\ d.int # "" \/ (d.hasFrac /\ d.frac # "")
       /\ d.hasExp => d.exp # ""
    THEN Decimal(neg, d.int, d.frac, ScannedExp(d))
    ELSE NaN

\* the text u after the sign
UnsignedToNumber(neg, u) ==
    IF u = "Infinity" THEN (IF neg THEN NegInfinity ELSE Infinity)
    ELSE DecimalNumber(neg, u, ScanDecimal(u, 1))

\* the trimmed text t: empty, a literal with a radix prefix, or a signed
\* decimal literal
TrimmedToNumber(t) ==
    IF t = "" THEN Num(0)
    ELSE IF RadixOf(t) # 0
         THEN RadixNumber(RadixValue(Rest(t, 2), RadixOf(t), 0))
    ELSE IF Char(t, 1) \in {"+", "-"}
         THEN UnsignedToNumber(Char(t, 1) = "-", Rest(t, 1))
    ELSE UnsignedToNumber(FALSE, t)

\* StringToNumber: the empty text is 0, then Infinity, a literal with a
\* radix prefix, or a signed decimal literal; everything else is NaN
StringToNumber(s) == TrimmedToNumber(TrimRight(TrimLeft(s)))

\* ToNumber(v), where the conversion of v to a primitive does not throw
ToNumber(v) ==
    CASE v.t \in {"number", "NaN", "Infinity", "-Infinity"} -> v
      [] v.t = "undefined" -> NaN
      [] v.t = "null" -> Num(0)
      [] v.t = "boolean" -> IF v.b THEN Num(1) ELSE Num(0)
      [] v.t = "string" -> StringToNumber(v.s)
      [] OTHER -> StringToNumber(ToStr(v))

\* x * k for a positive integer k
Times(x, k) == IF x.t = "number" THEN Num(x.n * k) ELSE x

\* t + x for an integer t
Plus(t, x) == IF x.t = "number" THEN Num(t + x.n) ELSE x

\* ------------------------------------------------------------------------
\* Pure parts of main(): request decoding and song construction
\* ------------------------------------------------------------------------
K_query == "query"

K_user == "user"

K_userid == "userid"

K_title == "title"

K_url == "url"

K_duration == "duration"

UnknownUser == Str("Unknown")

EmptyStr == Str("")

RadioUrl == Str("http://46.224.123.14:8000/radio")

\* mock duration of a resolved song, in seconds
MockDuration == 30

MsPerSecond == 1000

\* sleep(3000) at the end of every cycle
PollMs == 3000

\* { query: text, user: "Unknown", userid: "" }
FallbackRequest(text) ==
    Obj(<< <<K_query, text>>, <<K_user, UnknownUser>>, <<K_userid, EmptyStr>> >>)

\* the parsed value r.v, or the fallback of the catch
ParsedOr(r, text) == IF r.ok THEN r.v ELSE FallbackRequest(text)

\* one JSON.parse inside try/catch, with the fallback of the catch
ParseOrFallback(text) == ParsedOr(JSONparse(text.s), text)

\* the guard of the inbox step: inboxValue && inboxValue !== ""
InboxNonEmpty(inboxValue) == Truthy(inboxValue) /\ inboxValue # EmptyStr

\* the value of `request` when "Parsed Request" is logged
DecodeRequest(inboxValue) ==
    LET first == IF inboxValue.t = "string"
                 THEN ParseOrFallback(inboxValue)
                 ELSE inboxValue
    IN IF first.t = "string" THEN ParseOrFallback(first) ELSE first

\* the decoder as a whole: none for an empty or missing value
NoRequest == [t |-> "none"]

Decode(inboxValue) ==
    IF InboxNonEmpty(inboxValue) THEN DecodeRequest(inboxValue) ELSE NoRequest

\* resolveSong(query) rejects: the template literal of the title throws
resolveSongThrows(query) == ToStrThrows(query)

\* resolveSong(query): the placeholder resolver, where it does not throw
resolveSong(query) ==
    Obj(<< <<K_title, Str("Song: " \o ToStr(query))>>,
           <<K_url, RadioUrl>>,
           <<K_duration, Num(MockDuration)>>,
           <<K_user, UnknownUser>> >>)

\* request.query || request
QueryOf(request) == OrElse(GetProp(request, K_query), request)

\* songInfo after the two assignments that follow resolveSong
MakeSong(request) ==
    SetProp(SetProp(resolveSong(QueryOf(request)),
                    K_user, OrElse(GetProp(request, K_user), UnknownUser)),
            K_userid, OrElse(GetProp(request, K_userid), EmptyStr))

\* ------------------------------------------------------------------------
\* Bounds of the model
\* ------------------------------------------------------------------------
\* requests the producer writes to bot_inbox
MaxRequests == 2

\* appends made to music_queue by a writer other than the bot
MaxOtherWrites == 1

\* requests the producer writes in the decoder's specification
MaxDecodeRequests == 1

\* requests the producer writes in the end-to-end scenario
MaxScenarioRequests == 1

\* requests the producer writes in the specifications that start from any
\* stored value and let the loop run on
MaxLiveRequests == 1

\* the clock stops advancing past this reading (milliseconds)
MaxClock == 45000

\* ------------------------------------------------------------------------
\* State
\* ------------------------------------------------------------------------
VARIABLES
    musicQueue,     \* let musicQueue = []
    isPlaying,      \* let isPlaying = false
    currentSong,    \* let currentSong = null
    playingUntil,   \* let playingUntil = 0
    storage,        \* const storage = await fetchStorage(), as far as it is used
    request,        \* let request, once decoded
    now,            \* const now = Date.now()
    pc,             \* where main() is
    remote,         \* the storage service: the two objects
    clock,          \* Date.now()
    nextReq,        \* requests the producer has written so far
    other,          \* entries the other writer has appended to music_queue
    inboxReq,       \* history: number of the request bot_inbox holds (0: none)
    cyc,            \* history: what the current cycle has done so far
    entered,        \* history: every entry that entered musicQueue, in order
    shifts,         \* history: entries removed by musicQueue.shift()
    drained,        \* history: requests whose clear on the main path succeeded
    pushedReqs,     \* history: requests whose song was pushed
    knownVersion    \* history: version of music_queue last returned to the bot

progVars ==
    <<musicQueue, isPlaying, currentSong, playingUntil, storage, request, now, pc>>

histVars == <<inboxReq, cyc, entered, shifts, drained, pushedReqs, knownVersion>>

envVars == <<remote, clock, nextReq, other>>

vars == <<progVars, envVars, histVars>>

\* ------------------------------------------------------------------------
\* The storage service (GET / PUT with version tokens)
\* ------------------------------------------------------------------------
AbsentObject == [exists |-> FALSE, value |-> "", version |-> 0]

\* what fetchKey returns: null (found = FALSE), or the object, of which the
\* code reads .value and .metadata.version
NoHandle == [found |-> FALSE, value |-> Undefined, version |-> 0]

fetchKey(key, ok) ==
    IF ok /\ remote[key].exists
    THEN [found |-> TRUE, value |-> Str(remote[key].value),
          version |-> remote[key].version]
    ELSE NoHandle

\* payload.value without the typeof test: every value goes through
\* JSON.stringify, and the empty string is sent as two quotes
PayloadAlwaysStringified(value) == Stringify(value)

\* payload.value built with String(value) in place of JSON.stringify
PayloadNotSerialized(value) == IF value.t = "string" THEN value.s ELSE ToStr(value)

\* payload.value of updateStorage
PayloadValue(value) == IF value.t = "string" THEN value.s ELSE Stringify(value)

\* a PUT carrying expected version `version` (0: the field is left out) is
\* rejected when the object's version differs
VersionConflict(key, version) == version # 0 /\ remote[key].version # version

\* updateStorage resolves (TRUE) or throws (FALSE)
PutSucceeds(key, version, ok) == ok /\ ~VersionConflict(key, version)

\* the object after a PUT that was applied
PutResult(key, value) ==
    [exists |-> TRUE, value |-> PayloadValue(value),
     version |-> remote[key].version + 1]

\* the remote store after updateStorage(key, value, version)
updateStorage(key, value, version, ok) ==
    IF PutSucceeds(key, version, ok)
    THEN [remote EXCEPT ![key] = PutResult(key, value)]
    ELSE remote

\* ------------------------------------------------------------------------
\* The environment: producer of requests, other writer, clock
\* ------------------------------------------------------------------------
\* the encodings a producer may use: plain text, a JSON object, a JSON
\* object written with whitespace between its tokens and a line end after
\* it, a JSON object encoded twice, a JSON string holding plain text, the
\* JSON literals null and a number, and a JSON number beyond the range of
\* a double and its negative
DecoderFormats ==
    {"plain", "json", "spaced", "double", "jsonstr", "null", "number", "huge",
     "neghuge"}

\* the encodings used where only the protocol matters: one that yields a
\* song and one on which the inbox step throws after the clear
Formats == {"json", "null"}

PlainText(n) == "track" \o NumToStr(n)

RequestObj(n) ==
    Obj(<< <<K_query, Str(PlainText(n))>>, <<K_user, Str("u1")>>,
           <<K_userid, Str("42")>> >>)

\* the key under which a producer following the data model's spelling sends
\* the requester id; the bot reads request.userid
K_userId == "userId"

\* the request of the end-to-end scenario, the requester id under idKey
ScenarioRequest(idKey) ==
    Obj(<< <<K_query, Str("abc")>>, <<K_user, Str("u1")>>,
           <<idKey, Str("42")>> >>)

\* the two spellings of the scenario's request
ScenarioFormats == {"abc", "abcCamel"}

\* RequestObj(n) as a producer that formats its JSON writes it
SpacedText(n) ==
    "{ \"query\" : \"" \o PlainText(n)
        \o "\",\t\"user\":\"u1\" , \"userid\" : \"42\" }\n"

\* the text of the n-th request in each encoding
InboxText(f, n) ==
    CASE f = "plain" -> PlainText(n)
      [] f = "json" -> Stringify(RequestObj(n))
      [] f = "spaced" -> SpacedText(n)
      [] f = "double" -> Stringify(Str(Stringify(RequestObj(n))))
      [] f = "jsonstr" -> Stringify(Str(PlainText(n)))
      [] f = "null" -> "null"
      [] f = "huge" -> "1e999"
      [] f = "neghuge" -> "-1e999"
      [] f = "abc" -> Stringify(ScenarioRequest(K_userid))
      [] f = "abcCamel" -> Stringify(ScenarioRequest(K_userId))
      [] OTHER -> NumToStr(n)

\* the song entry persisted by an earlier run of the bot
OldSong == MakeSong(FallbackRequest(Str("old")))

\* the k-th entry appended by the other writer
OtherSong(k) == MakeSong(FallbackRequest(Str("other" \o NumToStr(k))))

InitialQueueObjects ==
    {AbsentObject,
     [exists |-> TRUE, value |-> Stringify(Arr(<<OldSong>>)), version |-> 1]}

\* the transport envelope of the interface description: a fixed literal
\* pair around the serialized queue
EnvelopePrefix == "PREFIX"

EnvelopeSuffix == "SUFFIX"

Wrap(text) == EnvelopePrefix \o text \o EnvelopeSuffix

\* an object of the store holding `text` at version 1
StoredText(text) == [exists |-> TRUE, value |-> text, version |-> 1]

\* what music_queue may hold when the bot starts: nothing, the empty value,
\* text that is not JSON, JSON that is not a list (an object, a number,
\* null), the empty list, a list of one entry, a list whose head is null,
\* a list whose entry has a duration beyond the range of a double or the
\* negative of one, and a list of one entry inside the envelope
StoredQueueObjects ==
    {AbsentObject,
     StoredText(Wrap(Stringify(Arr(<<OldSong>>)))),
     StoredText(""),
     StoredText("not json"),
     StoredText(Stringify(RequestObj(1))),
     StoredText("7"),
     StoredText("null"),
     StoredText(Stringify(Arr(<<>>))),
     StoredText(Stringify(Arr(<<OldSong>>))),
     StoredText("[{\"duration\":1e999}]"),
     StoredText("[{\"duration\":-1e999}]"),
     StoredText(Stringify(Arr(<<Null>>)))}

\* the stored values among them that hold no object: the ones the
\* specification with fairness starts from
LiveQueueObjects ==
    {AbsentObject,
     StoredText(""),
     StoredText("not json"),
     StoredText("7"),
     StoredText("null"),
     StoredText(Stringify(Arr(<<>>))),
     StoredText(Stringify(Arr(<<Null>>)))}

\* the encodings of the requests written while the loop runs on: plain text,
\* which yields a song, and null, on which the inbox step throws
LiveFormats == {"plain", "null"}

\* the producer overwrites bot_inbox with its next request
Produce(f, limit) ==
    /\ nextReq < limit
    /\ nextReq' = nextReq + 1
    /\ remote' = [remote EXCEPT !["bot_inbox"] =
                     [exists |-> TRUE, value |-> InboxText(f, nextReq + 1),
                      version |-> remote["bot_inbox"].version + 1]]
    /\ inboxReq' = nextReq + 1
    /\ UNCHANGED <<progVars, clock, other>>
    /\ UNCHANGED <<cyc, entered, shifts, drained, pushedReqs, knownVersion>>

ProducerWrite(f) == Produce(f, MaxRequests)

\* the producer of the decoder's specification: any encoding
ProducerWriteAny(f) == Produce(f, MaxDecodeRequests)

\* the producer of the end-to-end scenario
ProducerWriteScenario(f) == Produce(f, MaxScenarioRequests)

\* the producer of the specifications that start from any stored value
ProducerWriteLive(f) == Produce(f, MaxLiveRequests)

\* the serialized entries of the other writer
OtherSongTexts == [k \in 1..MaxOtherWrites |-> Stringify(OtherSong(k))]

\* the stored text is a list as JSON.stringify writes one
IsListText(text) ==
    Len(text) >= 2 /\ Char(text, 1) = "[" /\ Char(text, Len(text)) = "]"

\* the serialized list with one more entry; text that is no list counts as
\* the empty list
AppendedText(text, entry) ==
    IF text = "[]" \/ ~IsListText(text) THEN "[" \o entry \o "]"
    ELSE SubSeq(text, 1, Len(text) - 1) \o "," \o entry \o "]"

\* the other writer appends its next entry to music_queue: it reads the
\* object, adds the entry to the list it read and writes the list back
\* expecting the version it read (one step of the store: a conflict on its
\* side only makes it read again)
OtherAppend ==
    /\ other < MaxOtherWrites
    /\ LET h == fetchKey("music_queue", TRUE)
           text == IF h.found THEN h.value.s ELSE ""
           value == Str(AppendedText(text, OtherSongTexts[other + 1]))
       IN /\ remote' = updateStorage("music_queue", value, h.version, TRUE)
          /\ cyc' = [cyc EXCEPT
                        !.raced = @ \/ (/\ pc \in {"clear_inbox", "resolve",
                                                   "write_append"}
                                        /\ h.found
                                        /\ storage.music_queue.found
                                        /\ storage.music_queue.version = h.version)]
    /\ other' = other + 1
    /\ UNCHANGED <<progVars, clock, nextReq>>
    /\ UNCHANGED <<inboxReq, entered, shifts, drained, pushedReqs, knownVersion>>

\* ------------------------------------------------------------------------
\* main(): the initial load and the poll loop
\* ------------------------------------------------------------------------
CycInit ==
    [readReq |-> 0,         \* request the cycle's read of bot_inbox returned
     clearPuts |-> 0,       \* PUTs of bot_inbox issued
     clearOk |-> FALSE,     \* the clear on the main path succeeded
     transport |-> FALSE,   \* the clear on the main path failed in transport
     resolverCalls |-> 0,   \* calls of resolveSong
     pushes |-> 0,          \* musicQueue.push
     queuePuts |-> 0,       \* PUTs of music_queue issued after the push
     queueGets |-> 0,       \* GETs of music_queue issued
     conflict |-> FALSE,    \* the PUT after the push met a version conflict
     failed |-> FALSE,      \* a PUT or the resolver failed
     caught |-> FALSE,      \* the catch of the inbox step ran
     stale |-> FALSE,       \* a PUT of music_queue did not carry knownVersion
     raced |-> FALSE,       \* the other writer read the version the bot read
     wasPlaying |-> FALSE,  \* isPlaying when the playback step began
     deadline |-> Num(0),       \* playingUntil when the playback step began
     current |-> Null,      \* currentSong when the playback step began
     shifts0 |-> 0,         \* shifts when the playback step began
     lenAtFinish |-> 0,     \* musicQueue.length when the song finished
     popPuts |-> 0,         \* PUTs of music_queue issued after the shift
     popOk |-> FALSE,       \* the PUT after the shift succeeded
     finishes |-> 0,        \* Playing -> Idle transitions
     starts |-> 0]          \* Idle -> Playing transitions

\* currentSong.duration throws a TypeError for a song that is null or
\* undefined, and the product for a duration that has no primitive value
DurationThrows(song) ==
    PropThrows(song) \/ ToStrThrows(GetProp(song, K_duration))

\* currentSong.duration * 1000, where it does not throw
DurationMs(song) == Times(ToNumber(GetProp(song, K_duration)), MsPerSecond)

\* now >= playingUntil
ReachedDeadline(t, until) ==
    (until.t = "number" /\ t >= until.n) \/ until.t = "-Infinity"

\* musicQueue.pop() in place of shift(): removes the last entry
ShiftLast(q) == IF q = <<>> THEN q ELSE SubSeq(q, 1, Len(q) - 1)

\* musicQueue.shift()
Shift(q) == IF q = <<>> THEN q ELSE Tail(q)

\* const inboxValue = inboxData ? inboxData.value : ""
InboxValue == IF storage.bot_inbox.found THEN storage.bot_inbox.value ELSE EmptyStr

\* the two branches of the conditional exchanged: the version is dropped
\* exactly when the object carries one, and the clear is sent without it
InboxVersionMissing == IF storage.bot_inbox.found THEN 0 ELSE storage.bot_inbox.version

\* const inboxVersion = (inboxData && inboxData.metadata) ? ...version : null
InboxVersion == IF storage.bot_inbox.found THEN storage.bot_inbox.version ELSE 0

\* let queueVersion = (storage.music_queue && ...metadata) ? ...version : undefined
QueueVersion == IF storage.music_queue.found THEN storage.music_queue.version ELSE 0

\* the initial load without the Array.isArray test: whatever the stored
\* text parses to is taken for the queue
RestoredQueueUnchecked(h) ==
    IF h.found /\ Truthy(h.value)
    THEN LET r == JSONparse(h.value.s) IN
         IF ~r.ok THEN <<>> ELSE IF r.v.t = "array" THEN r.v.a ELSE <<r.v>>
    ELSE <<>>

\* the queue restored by the initial load from what fetchKey returned
RestoredQueue(h) ==
    IF h.found /\ Truthy(h.value)
    THEN LET r == JSONparse(h.value.s) IN
         IF r.ok /\ r.v.t = "array" THEN r.v.a ELSE <<>>
    ELSE <<>>

\* Initial Load of Queue (fetchStorage, then JSON.parse of music_queue)
LoadQueue(ok) ==
    /\ pc = "load"
    /\ LET h == fetchKey("music_queue", ok) IN
       /\ musicQueue' = RestoredQueue(h)
       /\ entered' = RestoredQueue(h)
       /\ knownVersion' = IF h.found THEN h.version ELSE knownVersion
    /\ pc' = "fetch_inbox"
    /\ UNCHANGED <<isPlaying, currentSong, playingUntil, storage, request, now>>
    /\ UNCHANGED <<envVars, inboxReq, cyc, shifts, drained, pushedReqs>>

\* result.bot_inbox = await fetchKey('bot_inbox')
FetchInbox(ok) ==
    /\ pc = "fetch_inbox"
    /\ LET h == fetchKey("bot_inbox", ok) IN
       /\ storage' = [bot_inbox |-> h, music_queue |-> NoHandle]
       /\ cyc' = [CycInit EXCEPT !.readReq = IF h.found THEN inboxReq ELSE 0]
    /\ pc' = "fetch_queue"
    /\ UNCHANGED <<musicQueue, isPlaying, currentSong, playingUntil, request, now>>
    /\ UNCHANGED <<envVars, inboxReq, entered, shifts, drained, pushedReqs,
                   knownVersion>>

\* the inbox step entered without the guard on the inbox value
AfterFetchUnguarded(inboxValue) == "clear_inbox"

\* where the cycle goes after fetchStorage: into the inbox step or past it
AfterFetch(inboxValue) ==
    IF InboxNonEmpty(inboxValue) THEN "clear_inbox" ELSE "playback"

\* result.music_queue = await fetchKey('music_queue'), then the guard of the
\* inbox step and the decoding of the request
FetchQueue(ok) ==
    /\ pc = "fetch_queue"
    /\ LET h == fetchKey("music_queue", ok) IN
       /\ storage' = [storage EXCEPT !.music_queue = [h EXCEPT !.value = Undefined]]
       /\ knownVersion' = IF h.found THEN h.version ELSE knownVersion
       /\ cyc' = [cyc EXCEPT !.queueGets = @ + 1,
                             !.raced = FALSE]
    /\ request' = Decode(InboxValue)
    /\ pc' = AfterFetch(InboxValue)
    /\ UNCHANGED <<musicQueue, isPlaying, currentSong, playingUntil, now>>
    /\ UNCHANGED <<envVars, inboxReq, entered, shifts, drained, pushedReqs>>

\* the clear not awaited inside the try: its failure is not noticed
AfterClearUnchecked(success, req) ==
    IF ~PropThrows(req) THEN "resolve" ELSE "catch_clear"

\* a clear that throws, or the TypeError, caught nowhere: main() ends
AfterClearFatal(success, req) ==
    IF success /\ ~PropThrows(req) THEN "resolve" ELSE "crashed"

\* where the try block goes once the clear has resolved or thrown:
\* request.query of null or undefined throws a TypeError
AfterClear(success, req) ==
    IF success /\ ~PropThrows(req) THEN "resolve" ELSE "catch_clear"

\* await updateStorage("bot_inbox", "", inboxVersion) on the main path
ClearInbox(ok) ==
    /\ pc = "clear_inbox"
    /\ LET success == PutSucceeds("bot_inbox", InboxVersion, ok) IN
       /\ remote' = updateStorage("bot_inbox", EmptyStr, InboxVersion, ok)
       /\ pc' = AfterClear(success, request)
       /\ inboxReq' = IF success THEN 0 ELSE inboxReq
       /\ drained' = IF success THEN Append(drained, cyc.readReq) ELSE drained
       /\ cyc' = [cyc EXCEPT !.clearPuts = @ + 1,
                             !.clearOk = success,
                             !.transport = ~ok /\ ~VersionConflict("bot_inbox",
                                                                   InboxVersion),
                             !.failed = ~success,
                             !.caught = AfterClear(success, request) = "catch_clear"]
    /\ UNCHANGED <<musicQueue, isPlaying, currentSong, playingUntil, storage,
                   request, now>>
    /\ UNCHANGED <<clock, nextReq, other, entered, shifts, pushedReqs, knownVersion>>

\* const songInfo = await resolveSong(query), the two assignments and
\* musicQueue.push(songInfo); a resolver that throws leads to the catch
Resolve(ok) ==
    /\ pc = "resolve"
    /\ IF ok /\ ~resolveSongThrows(QueryOf(request))
       THEN /\ musicQueue' = Append(musicQueue, MakeSong(request))
            /\ entered' = Append(entered, MakeSong(request))
            /\ pushedReqs' = Append(pushedReqs, cyc.readReq)
            /\ cyc' = [cyc EXCEPT !.resolverCalls = @ + 1, !.pushes = @ + 1]
            /\ pc' = "write_append"
       ELSE /\ cyc' = [cyc EXCEPT !.resolverCalls = @ + 1, !.failed = TRUE,
                                  !.caught = TRUE]
            /\ pc' = "catch_clear"
            /\ UNCHANGED <<musicQueue, entered, pushedReqs>>
    /\ UNCHANGED <<isPlaying, currentSong, playingUntil, storage, request, now>>
    /\ UNCHANGED <<envVars, inboxReq, shifts, drained, knownVersion>>

\* storage.music_queue after a PUT that returned newQueueObj
WithNewVersion(h, version) == [h EXCEPT !.found = TRUE, !.version = version]

\* const newQueueObj = await updateStorage("music_queue", musicQueue,
\* queueVersion) after the push, and the update of storage.music_queue
WriteAppend(ok) ==
    /\ pc = "write_append"
    /\ LET success == PutSucceeds("music_queue", QueueVersion, ok) IN
       /\ remote' = updateStorage("music_queue", Arr(musicQueue), QueueVersion, ok)
       /\ storage' = IF success
                     THEN [storage EXCEPT !.music_queue =
                              WithNewVersion(@, remote'["music_queue"].version)]
                     ELSE storage
       /\ knownVersion' = IF success THEN remote'["music_queue"].version
                          ELSE knownVersion
       /\ pc' = IF success THEN "playback" ELSE "catch_clear"
       /\ cyc' = [cyc EXCEPT
                     !.queuePuts = @ + 1,
                     !.conflict = VersionConflict("music_queue", QueueVersion),
                     !.failed = ~success,
                     !.caught = ~success,
                     !.stale = QueueVersion # knownVersion]
    /\ UNCHANGED <<musicQueue, isPlaying, currentSong, playingUntil, request, now>>
    /\ UNCHANGED <<clock, nextReq, other, inboxReq, entered, shifts, drained,
                   pushedReqs>>

\* the catch of the inbox step: a second updateStorage("bot_inbox", "",
\* inboxVersion), whose own failure is only logged
CatchClear(ok) ==
    /\ pc = "catch_clear"
    /\ LET success == PutSucceeds("bot_inbox", InboxVersion, ok) IN
       /\ remote' = updateStorage("bot_inbox", EmptyStr, InboxVersion, ok)
       /\ inboxReq' = IF success THEN 0 ELSE inboxReq
       /\ cyc' = [cyc EXCEPT !.clearPuts = @ + 1]
    /\ pc' = "playback"
    /\ UNCHANGED <<musicQueue, isPlaying, currentSong, playingUntil, storage,
                   request, now>>
    /\ UNCHANGED <<clock, nextReq, other, entered, shifts, drained, pushedReqs,
                   knownVersion>>

\* the next song taken from the tail of the queue instead of its head
StartNextTakesLast(q, playing, song, until, t) ==
    IF ~playing /\ Len(q) > 0
    THEN [isPlaying |-> TRUE, currentSong |-> q[Len(q)],
          playingUntil |-> IF DurationThrows(q[Len(q)]) THEN until
                           ELSE Plus(t, DurationMs(q[Len(q)])),
          started |-> 1]
    ELSE [isPlaying |-> playing, currentSong |-> song, playingUntil |-> until,
          started |-> 0]

\* Start playing next song if idle: isPlaying, currentSong and playingUntil
\* after the step, for queue q and clock reading t.  Where line 260 throws,
\* isPlaying and currentSong are set and playingUntil keeps its value.
StartNext(q, playing, song, until, t) ==
    IF ~playing /\ Len(q) > 0
    THEN [isPlaying |-> TRUE, currentSong |-> q[1],
          playingUntil |-> IF DurationThrows(q[1]) THEN until
                           ELSE Plus(t, DurationMs(q[1])),
          started |-> 1]
    ELSE [isPlaying |-> playing, currentSong |-> song, playingUntil |-> until,
          started |-> 0]

\* the deadline taken for seconds and converted once more
SongFinishedInSeconds(t) ==
    isPlaying /\ ReachedDeadline(t, Times(playingUntil, MsPerSecond))

\* isPlaying && now >= playingUntil
SongFinished(t) == isPlaying /\ ReachedDeadline(t, playingUntil)

\* const now = Date.now(); then either the song has finished (isPlaying,
\* currentSong, shift: the PUT follows in WritePop) or the idle check runs
Playback ==
    /\ pc = "playback"
    /\ now' = clock
    /\ IF SongFinished(clock)
       THEN /\ isPlaying' = FALSE
            /\ currentSong' = Null
            /\ musicQueue' = Shift(musicQueue)
            /\ shifts' = IF musicQueue = <<>> THEN shifts ELSE shifts + 1
            /\ playingUntil' = playingUntil
            /\ pc' = "write_pop"
            /\ cyc' = [cyc EXCEPT !.wasPlaying = isPlaying,
                                  !.deadline = playingUntil,
                                  !.current = currentSong,
                                  !.shifts0 = shifts,
                                  !.lenAtFinish = Len(musicQueue),
                                  !.finishes = @ + 1]
       ELSE LET n == StartNext(musicQueue, isPlaying, currentSong, playingUntil,
                               clock)
            IN /\ isPlaying' = n.isPlaying
               /\ currentSong' = n.currentSong
               /\ playingUntil' = n.playingUntil
               /\ pc' = "sleep"
               /\ cyc' = [cyc EXCEPT !.wasPlaying = isPlaying,
                                     !.deadline = playingUntil,
                                     !.current = currentSong,
                                     !.shifts0 = shifts,
                                     !.starts = @ + n.started]
               /\ UNCHANGED <<musicQueue, shifts>>
    /\ UNCHANGED <<storage, request>>
    /\ UNCHANGED <<envVars, inboxReq, entered, drained, pushedReqs, knownVersion>>

\* storage.music_queue after the PUT of the pop: the version is stored only
\* when the cycle's fetch had returned the object
AfterPopWrite(h, version) == IF h.found THEN [h EXCEPT !.version = version] ELSE h

\* await updateStorage("music_queue", musicQueue, queueVersion) after the
\* shift, in its own try/catch, then the idle check
WritePop(ok) ==
    /\ pc = "write_pop"
    /\ LET success == PutSucceeds("music_queue", QueueVersion, ok)
           n == StartNext(musicQueue, isPlaying, currentSong, playingUntil, now)
       IN /\ remote' = updateStorage("music_queue", Arr(musicQueue), QueueVersion, ok)
          /\ storage' = IF success
                        THEN [storage EXCEPT !.music_queue =
                                 AfterPopWrite(@, remote'["music_queue"].version)]
                        ELSE storage
          /\ knownVersion' = IF success THEN remote'["music_queue"].version
                             ELSE knownVersion
          /\ isPlaying' = n.isPlaying
          /\ currentSong' = n.currentSong
          /\ playingUntil' = n.playingUntil
          /\ cyc' = [cyc EXCEPT !.stale = @ \/ QueueVersion # knownVersion,
                                !.popPuts = @ + 1,
                                !.popOk = success,
                                !.starts = @ + n.started]
    /\ pc' = "sleep"
    /\ UNCHANGED <<musicQueue, request, now>>
    /\ UNCHANGED <<clock, nextReq, other, inboxReq, entered, shifts, drained,
                   pushedReqs>>

\* the length of a resolved song on the clock
SongMs == MockDuration * MsPerSecond

\* how far the clock moves between two readings of Date.now(): sleep(3000)
\* plus the time the remote calls of the cycle take.  The model lets five or
\* ten poll intervals pass: half a song, or a whole song
ClockAdvances == {5 * PollMs, 10 * PollMs}

\* await sleep(3000), and the next iteration of while (true)
Sleep(d) ==
    /\ pc = "sleep"
    /\ clock + d <= MaxClock
    /\ clock' = clock + d
    /\ pc' = "fetch_inbox"
    /\ cyc' = CycInit
    /\ UNCHANGED <<musicQueue, isPlaying, currentSong, playingUntil, storage,
                   request, now>>
    /\ UNCHANGED <<remote, nextReq, other, inboxReq, entered, shifts, drained,
                   pushedReqs, knownVersion>>

\* await sleep(3000) and the next iteration once the clock has reached
\* MaxClock: the loop goes on, the reading of the clock is no longer advanced
SleepOn ==
    /\ pc = "sleep"
    /\ \A d \in ClockAdvances : clock + d > MaxClock
    /\ pc' = "fetch_inbox"
    /\ cyc' = CycInit
    /\ UNCHANGED <<musicQueue, isPlaying, currentSong, playingUntil, storage,
                   request, now>>
    /\ UNCHANGED <<envVars, inboxReq, entered, shifts, drained, pushedReqs,
                   knownVersion>>

\* ------------------------------------------------------------------------
\* Specification
\* ------------------------------------------------------------------------
Init ==
    /\ musicQueue = <<>>
    /\ isPlaying = FALSE
    /\ currentSong = Null
    /\ playingUntil = Num(0)
    /\ storage = [bot_inbox |-> NoHandle, music_queue |-> NoHandle]
    /\ request = NoRequest
    /\ now = 0
    /\ pc = "load"
    /\ \E q \in InitialQueueObjects :
          remote = [bot_inbox |-> AbsentObject, music_queue |-> q]
    /\ clock = 0
    /\ nextReq = 0
    /\ other = 0
    /\ inboxReq = 0
    /\ cyc = CycInit
    /\ entered = <<>>
    /\ shifts = 0
    /\ drained = <<>>
    /\ pushedReqs = <<>>
    /\ knownVersion = 0

Next ==
    \/ \E ok \in BOOLEAN : LoadQueue(ok)
    \/ \E ok \in BOOLEAN : FetchInbox(ok)
    \/ \E ok \in BOOLEAN : FetchQueue(ok)
    \/ \E ok \in BOOLEAN : ClearInbox(ok)
    \/ \E ok \in BOOLEAN : Resolve(ok)
    \/ \E ok \in BOOLEAN : WriteAppend(ok)
    \/ \E ok \in BOOLEAN : CatchClear(ok)
    \/ Playback
    \/ \E ok \in BOOLEAN : WritePop(ok)
    \/ \E d \in ClockAdvances : Sleep(d)
    \/ \E f \in Formats : ProducerWrite(f)
    \/ OtherAppend

Spec == Init /\ [][Next]_vars

\* the bot against a producer that uses every encoding, without the other
\* writer
BotStep ==
    \/ \E ok \in BOOLEAN : LoadQueue(ok)
    \/ \E ok \in BOOLEAN : FetchInbox(ok)
    \/ \E ok \in BOOLEAN : FetchQueue(ok)
    \/ \E ok \in BOOLEAN : ClearInbox(ok)
    \/ \E ok \in BOOLEAN : Resolve(ok)
    \/ \E ok \in BOOLEAN : WriteAppend(ok)
    \/ \E ok \in BOOLEAN : CatchClear(ok)
    \/ Playback
    \/ \E ok \in BOOLEAN : WritePop(ok)
    \/ \E d \in ClockAdvances : Sleep(d)

NextDecode == BotStep \/ \E f \in DecoderFormats : ProducerWriteAny(f)

SpecDecode == Init /\ [][NextDecode]_vars

\* the bot against the producer of the end-to-end scenario
NextScenario == BotStep \/ \E f \in ScenarioFormats : ProducerWriteScenario(f)

SpecScenario == Init /\ [][NextScenario]_vars

\* the state after construction with music_queue holding any stored value
InitLoad ==
    /\ musicQueue = <<>>
    /\ isPlaying = FALSE
    /\ currentSong = Null
    /\ playingUntil = Num(0)
    /\ storage = [bot_inbox |-> NoHandle, music_queue |-> NoHandle]
    /\ request = NoRequest
    /\ now = 0
    /\ pc = "load"
    /\ \E q \in StoredQueueObjects :
          remote = [bot_inbox |-> AbsentObject, music_queue |-> q]
    /\ clock = 0
    /\ nextReq = 0
    /\ other = 0
    /\ inboxReq = 0
    /\ cyc = CycInit
    /\ entered = <<>>
    /\ shifts = 0
    /\ drained = <<>>
    /\ pushedReqs = <<>>
    /\ knownVersion = 0

\* the steps of the bot with a loop that runs on
BotStepLive == BotStep \/ SleepOn

NextLive == BotStepLive \/ \E f \in LiveFormats : ProducerWriteLive(f)

\* the bot started on any stored value
SpecLoad == InitLoad /\ [][NextLive]_vars

\* the same with the scheduling of the code: main() always takes its next
\* step (every await returns or throws), and a PUT of music_queue that is
\* tried again and again succeeds in the end
InitLive == InitLoad /\ remote["music_queue"] \in LiveQueueObjects

SpecLive ==
    /\ InitLive
    /\ [][NextLive]_vars
    /\ WF_vars(BotStepLive)
    /\ SF_vars(WriteAppend(TRUE))
    /\ SF_vars(WritePop(TRUE))

\* the bot over a clock that runs one song past MaxClock, so that a song
\* started at MaxClock still reaches its deadline, with as many requests
\* as songs fit into that time
MaxPlayClock == MaxClock + SongMs

MaxPlayRequests == MaxPlayClock \div SongMs

\* the producer of the playback specification: plain text requests
ProducerWritePlay == Produce("plain", MaxPlayRequests)

\* the other writer between the cycle's read of music_queue and its PUT:
\* the write of it the bot meets as a version conflict
OtherAppendPlay == pc \in {"write_append", "write_pop"} /\ OtherAppend

\* await sleep(3000) and the next iteration, the clock past MaxClock
SleepLate(d) ==
    /\ pc = "sleep"
    /\ clock + d > MaxClock
    /\ clock + d <= MaxPlayClock
    /\ clock' = clock + d
    /\ pc' = "fetch_inbox"
    /\ cyc' = CycInit
    /\ UNCHANGED <<musicQueue, isPlaying, currentSong, playingUntil, storage,
                   request, now>>
    /\ UNCHANGED <<remote, nextReq, other, inboxReq, entered, shifts, drained,
                   pushedReqs, knownVersion>>

\* await sleep(3000) and the next iteration once the clock has reached
\* MaxPlayClock: the loop goes on, the reading of the clock is no longer
\* advanced
SleepOnPlay ==
    /\ pc = "sleep"
    /\ \A d \in ClockAdvances : clock + d > MaxPlayClock
    /\ pc' = "fetch_inbox"
    /\ cyc' = CycInit
    /\ UNCHANGED <<musicQueue, isPlaying, currentSong, playingUntil, storage,
                   request, now>>
    /\ UNCHANGED <<envVars, inboxReq, entered, shifts, drained, pushedReqs,
                   knownVersion>>

\* music_queue at the start: absent, or a list whose entry has no duration
PlayQueueObjects == {AbsentObject, StoredText(Stringify(Arr(<<Null>>)))}

InitPlay == InitLoad /\ remote["music_queue"] \in PlayQueueObjects

BotStepPlay ==
    \/ BotStep
    \/ \E d \in ClockAdvances : SleepLate(d)
    \/ SleepOnPlay

NextPlay ==
    \/ BotStepPlay
    \/ ProducerWritePlay
    \/ OtherAppendPlay

\* main() always takes its next step: every await returns or throws
SpecPlay ==
    /\ InitPlay
    /\ [][NextPlay]_vars
    /\ WF_vars(BotStepPlay)

\* ------------------------------------------------------------------------
\* Properties
\* ------------------------------------------------------------------------
NoDuplicates(q) == \A i, j \in 1..Len(q) : i # j => q[i] # q[j]

Range(q) == {q[i] : i \in 1..Len(q)}

Count(q, e) == Cardinality({i \in 1..Len(q) : q[i] = e})

\* the list stored under music_queue, as a reader parses it
RemoteQueue == RestoredQueue(fetchKey("music_queue", TRUE))

InboxStepDone == pc \in {"playback", "write_pop", "sleep"}

\* C1: at-most-once inbox drain.  No request written by the producer is
\* pushed to the queue more than once, whatever fails; and once the clear
\* has succeeded bot_inbox holds the empty value until the producer writes
\* again, so a read made in between finds nothing to process.
C1_AtMostOnceDrain ==
    /\ NoDuplicates(pushedReqs)
    /\ (inboxReq = 0 /\ remote["bot_inbox"].exists)
          => remote["bot_inbox"].value = ""
    /\ (pc \in {"clear_inbox", "resolve", "write_append", "catch_clear"})
          => cyc.readReq # 0

C1_Witness ==
    /\ Len(pushedReqs) = 1
    /\ Len(drained) = 2
    /\ nextReq = 2
    /\ inboxReq = 0
    /\ remote["bot_inbox"].exists
    /\ remote["bot_inbox"].value = ""
    /\ pc = "sleep"

\* C2: in a cycle that read a non-empty inbox the clear is issued, and has
\* succeeded, before the resolver is called, before the push and before the
\* queue is written; a failed clear leaves the queue alone; and a request
\* whose decoding or resolution failed after the clear is gone for good:
\* nothing is pushed for it, bot_inbox no longer holds it and no later cycle
\* clears (processes) it again.
C2_ClearPrecedesSideEffects ==
    /\ (cyc.resolverCalls > 0 \/ cyc.pushes > 0 \/ cyc.queuePuts > 0)
          => (cyc.clearOk /\ cyc.clearPuts >= 1)
    /\ (cyc.clearPuts > 0 /\ ~cyc.clearOk) => cyc.pushes = 0
    /\ (cyc.clearOk /\ cyc.caught /\ cyc.queuePuts = 0)
          => (cyc.pushes = 0 /\ cyc.readReq \notin Range(pushedReqs))
    /\ NoDuplicates(drained)
    /\ inboxReq \notin Range(drained)
    /\ pc = "clear_inbox" => cyc.readReq \notin Range(drained)
    /\ Range(pushedReqs) \subseteq Range(drained)

C2_Witness ==
    /\ pc = "sleep"
    /\ cyc.clearOk
    /\ cyc.resolverCalls = 1
    /\ cyc.failed
    /\ cyc.pushes = 0
    /\ cyc.readReq \in Range(drained)
    /\ remote["bot_inbox"].value = ""

\* C3: a PUT of music_queue that follows the push and is rejected with a
\* version conflict is followed, in the same cycle, by a second GET of
\* music_queue and by exactly one more PUT.
C3_RetryOnceOnConflict ==
    (InboxStepDone /\ cyc.conflict) => (cyc.queueGets = 2 /\ cyc.queuePuts = 2)

\* C4: when the bot and the other writer both append starting from the same
\* version of music_queue, then at the end of the bot's cycle the stored
\* list holds the bot's entry and the other writer's entry, each once.
C4_BothEntriesKept ==
    (pc = "sleep" /\ cyc.raced /\ cyc.pushes = 1)
        => /\ Count(RemoteQueue, MakeSong(request)) = 1
           /\ Count(RemoteQueue, OtherSong(other)) = 1

\* C5: every PUT of music_queue carries the version token that the most
\* recent successful GET or PUT of music_queue returned to the bot.
C5_WritesCarryKnownVersion == ~cyc.stale

\* C6: append monotonicity.  musicQueue is always the entries that entered
\* it, in the order they entered, less the ones shifted off its head; no
\* entry occurs twice.
C6_Fifo ==
    /\ shifts <= Len(entered)
    /\ musicQueue = SubSeq(entered, shifts + 1, Len(entered))
    /\ NoDuplicates(entered)

C6_Witness ==
    /\ pc = "sleep"
    /\ cyc.conflict
    /\ shifts = 1
    /\ Len(musicQueue) = 2
    /\ Len(pushedReqs) = 2

\* the playback step of the cycle began in state Playing with a deadline
\* the clock reading had not reached / had reached
PolledBeforeDeadline ==
    /\ pc = "sleep"
    /\ cyc.wasPlaying
    /\ cyc.deadline.t = "number"
    /\ now < cyc.deadline.n

PolledAtDeadline ==
    /\ pc = "sleep"
    /\ cyc.wasPlaying
    /\ cyc.deadline.t = "number"
    /\ now >= cyc.deadline.n

\* Playing with the same current entry, nothing removed from the queue
StillPlayingSame ==
    /\ isPlaying
    /\ currentSong = cyc.current
    /\ playingUntil = cyc.deadline
    /\ shifts = cyc.shifts0
    /\ musicQueue # <<>>
    /\ musicQueue[1] = cyc.current

\* the former head (the entry that was playing) has been removed, once
HeadRemovedOnce ==
    /\ shifts = cyc.shifts0 + 1
    /\ cyc.finishes = 1
    /\ entered[shifts] = cyc.current
    /\ cyc.current \notin Range(musicQueue)

\* C7: below the deadline the state stays Playing with the same entry and
\* the head is not removed; at the end of the first cycle at or past the
\* deadline the state is Idle and the former head has been removed once.
\* Violated: with another entry queued behind the head, the idle check of
\* line 256 starts it in the same cycle and the cycle ends Playing.
C7_IdleAfterDeadline ==
    /\ PolledBeforeDeadline => StillPlayingSame
    /\ PolledAtDeadline => (~isPlaying /\ HeadRemovedOnce)

\* C8: no cycle makes both the Playing -> Idle and the Idle -> Playing
\* transition.  Violated: the checks of lines 233 and 256 are consecutive
\* ifs, so a cycle that finishes a song starts the next queued one.
C8_OneTransitionPerCycle == ~(cyc.finishes >= 1 /\ cyc.starts >= 1)

\* the request was decoded from the inbox value the cycle holds
Decoded == pc \notin {"load", "fetch_queue"}

\* C9: decoder tolerance.  An empty or missing inbox value decodes to none;
\* a JSON-encoded request to the object it encodes; a request encoded twice
\* to the same object; and text that is not JSON to the request whose query
\* is the raw text, with user "Unknown" and userId "".  Violated in its
\* last part: the fallback request of lines 173 and 185 carries the empty
\* id under the key userid and has no property userId.
C9_DecoderTolerance ==
    Decoded =>
       /\ (~storage.bot_inbox.found \/ InboxValue = EmptyStr)
             => request = NoRequest
       /\ \A n \in 1..nextReq :
             /\ InboxValue = Str(InboxText("json", n)) => request = RequestObj(n)
             /\ InboxValue = Str(InboxText("spaced", n)) => request = RequestObj(n)
             /\ InboxValue = Str(InboxText("double", n)) => request = RequestObj(n)
             /\ InboxValue = Str(InboxText("plain", n))
                   => request = Obj(<< <<K_query, Str(PlainText(n))>>,
                                       <<K_user, Str("Unknown")>>,
                                       <<K_userId, Str("")>> >>)

\* C10: whatever the encoding of a non-empty inbox value, a cycle in which
\* the clear, the resolver and the queue write did not fail pushes exactly
\* one entry and never enters the catch of the inbox step.
C10_DecodeNeverDrops ==
    (InboxStepDone /\ cyc.readReq # 0 /\ cyc.clearOk /\ ~cyc.failed)
        => (cyc.pushes = 1 /\ ~cyc.caught)

\* text `part` occurs in text `text`
Contains(text, part) ==
    \E i \in 1..(Len(text) - Len(part) + 1) :
        SubSeq(text, i, i + Len(part) - 1) = part

\* the entry of the scenario: title containing "abc", requester "u1" with
\* id "42", 30 seconds long
IsScenarioEntry(e) ==
    /\ GetProp(e, K_title).t = "string"
    /\ Contains(GetProp(e, K_title).s, "abc")
    /\ GetProp(e, K_user) = Str("u1")
    /\ GetProp(e, K_userid) = Str("42")
    /\ GetProp(e, K_duration) = Num(30)

\* the end of a cycle that began Idle with an empty queue, read the
\* scenario's request in spelling f and had no failing call
ScenarioCycleDone(f) ==
    /\ pc = "sleep"
    /\ InboxValue = Str(InboxText(f, 1))
    /\ cyc.pushes = 1
    /\ ~cyc.failed
    /\ ~cyc.wasPlaying
    /\ Len(entered) = cyc.shifts0 + 1

\* what the scenario says of the end of that cycle
ScenarioQueued ==
    /\ inboxReq # cyc.readReq
    /\ inboxReq = 0 => remote["bot_inbox"].value = ""
    /\ Len(musicQueue) = 1
    /\ IsScenarioEntry(musicQueue[1])
    /\ RemoteQueue = musicQueue
    /\ isPlaying
    /\ currentSong = musicQueue[1]
    /\ playingUntil = Num(now + MockDuration * MsPerSecond)

\* the end of the first cycle at or past the deadline of the only entry,
\* with no new request
ScenarioPlayedOut ==
    PolledAtDeadline /\ cyc.lenAtFinish = 1 /\ cyc.pushes = 0

\* C11: the end-to-end scenario.  The request carries the requester id
\* under the key userId.  The cycle that reads it ends with the inbox
\* cleared, the queue holding the one entry (title containing "abc",
\* requester "u1", id "42", 30 seconds) and the scheduler Playing; the
\* first cycle at or past the deadline ends with the queue empty and the
\* scheduler Idle.  Violated: line 198 reads request.userid, so the entry
\* carries the empty id.
C11_ScenarioCamelKey ==
    /\ ScenarioCycleDone("abcCamel") => ScenarioQueued
    /\ ScenarioPlayedOut =>
          /\ musicQueue = <<>>
          /\ ~isPlaying
          /\ currentSong = Null

\* the cycle issued a PUT of music_queue and each one it issued succeeded
QueueWritesSucceeded ==
    /\ cyc.queuePuts + cyc.popPuts >= 1
    /\ cyc.queuePuts = 1 => ~cyc.failed
    /\ cyc.popPuts = 1 => cyc.popOk

\* music_queue holds the serialization of the local queue
QueuePersisted == remote["music_queue"].value = Stringify(Arr(musicQueue))

\* C12 as stated: at the end of every cycle in which no queue write failed
\* and no other writer wrote music_queue, the stored value is the
\* serialization of the local queue (cycles that wrote nothing included).
C12_PersistedEveryCycle ==
    (/\ pc = "sleep"
     /\ remote["music_queue"].exists
     /\ other = 0
     /\ cyc.queuePuts = 1 => ~cyc.failed
     /\ cyc.popPuts = 1 => cyc.popOk) => QueuePersisted

\* C12, amended: every push and every shift is followed, in the same cycle,
\* by a PUT of the whole queue; and at the end of every cycle that wrote
\* the queue, whose queue writes all succeeded and after whose last write no
\* other writer wrote, the stored value is the serialization of the local
\* queue.
C12_PersistAfterMutation ==
    /\ (InboxStepDone /\ cyc.pushes = 1) => cyc.queuePuts = 1
    /\ (pc = "sleep" /\ cyc.finishes = 1) => cyc.popPuts = 1
    /\ (/\ pc = "sleep"
        /\ QueueWritesSucceeded
        /\ remote["music_queue"].version = knownVersion) => QueuePersisted

C12_Witness ==
    /\ pc = "sleep"
    /\ cyc.queuePuts = 1
    /\ cyc.popPuts = 1
    /\ QueueWritesSucceeded
    /\ remote["music_queue"].version = knownVersion
    /\ Len(musicQueue) = 2
    /\ QueuePersisted

\* the end of a cycle whose PUT after the shift failed, leaving under
\* music_queue a list that is not the local queue
PopWriteLeftBehind ==
    /\ pc = "sleep"
    /\ cyc.popPuts = 1
    /\ ~cyc.popOk
    /\ cyc.current # Null
    /\ RemoteQueue # musicQueue

\* C13: a queue write that failed is made again in a following cycle.  Once
\* the PUT after a shift has failed and left the stored list different from
\* the local queue, the stored list becomes equal to the local queue again,
\* also when the queue stays empty from then on (no request is pushed and
\* no song finishes any more).
C13_FailedWriteRetried ==
    []((PopWriteLeftBehind /\ [](musicQueue = <<>>)) => <>(RemoteQueue = musicQueue))

\* the order of the positions of main() within one iteration
PcRank(p) ==
    CASE p = "load" -> 0
      [] p = "fetch_inbox" -> 1
      [] p = "fetch_queue" -> 2
      [] p = "clear_inbox" -> 3
      [] p = "resolve" -> 4
      [] p = "write_append" -> 5
      [] p = "catch_clear" -> 6
      [] p = "playback" -> 7
      [] p = "write_pop" -> 8
      [] p = "sleep" -> 9
      [] OTHER -> 10

\* C14: no error is fatal.  Whatever fails in a cycle (reads, writes,
\* version conflicts, a malformed inbox value, the resolver, a null head of
\* the queue), main() moves forward through the cycle to the sleep, and the
\* next cycle begins only from the sleep of the one before: cycles follow
\* each other for ever and never overlap.
C14_LoopContinues ==
    /\ [][\/ pc' = pc
          \/ PcRank(pc) < PcRank(pc') /\ PcRank(pc') <= PcRank("sleep")
          \/ pc = "sleep" /\ pc' = "fetch_inbox"]_vars
    /\ []<>(pc = "sleep")
    /\ []<>(pc = "fetch_inbox")

C14_Witness ==
    /\ pc = "sleep"
    /\ cyc.readReq # 0
    /\ cyc.failed
    /\ cyc.caught
    /\ cyc.clearPuts = 2
    /\ cyc.popPuts = 1
    /\ ~cyc.popOk
    /\ ~storage.music_queue.found

\* the state right after the initial load, the read of music_queue having
\* returned the stored object
LoadedStoredObject == pc = "fetch_inbox" /\ clock = 0 /\ knownVersion # 0

\* C15: envelope round trip.  The value the bot stores under music_queue
\* for its queue Q is the serialization of Q inside the envelope; and
\* loading the value stored for Q, inside the envelope or without it,
\* yields Q.
C15_EnvelopeRoundTrip ==
    /\ (/\ pc = "sleep"
        /\ QueueWritesSucceeded
        /\ remote["music_queue"].version = knownVersion)
          => remote["music_queue"].value = Wrap(Stringify(Arr(musicQueue)))
    /\ LoadedStoredObject =>
          \A Q \in {<<>>, <<OldSong>>, <<Null>>} :
             remote["music_queue"].value
                   \in {Stringify(Arr(Q)), Wrap(Stringify(Arr(Q)))}
                => musicQueue = Q

\* the state right after the initial load
AfterLoad == pc = "fetch_inbox" /\ clock = 0

\* stored texts that are empty, not JSON, or JSON for something that is
\* not a list
NotAListTexts ==
    {"", "not json", "7", "null", Stringify(RequestObj(1)),
     Wrap(Stringify(Arr(<<OldSong>>)))}

\* C16: the initial load never fails.  main() is always at a position of
\* the loop; right after the load the local queue is empty when the object
\* is absent or its read failed, when the stored text is empty, is not
\* JSON, or is JSON for something that is not a list; and it is the stored
\* list when the text read is the serialization of a list.
C16_LoadNeverFails ==
    /\ PcRank(pc) <= PcRank("sleep")
    /\ AfterLoad =>
          /\ knownVersion = 0 => musicQueue = <<>>
          /\ remote["music_queue"].value \in NotAListTexts => musicQueue = <<>>
          /\ \A Q \in {<<>>, <<OldSong>>, <<Null>>} :
                (knownVersion # 0 /\ remote["music_queue"].value = Stringify(Arr(Q)))
                    => musicQueue = Q
          /\ (knownVersion # 0
                /\ remote["music_queue"].value = "[{\"duration\":1e999}]")
                => musicQueue = << Obj(<< <<K_duration, Infinity>> >>) >>
          /\ (knownVersion # 0
                /\ remote["music_queue"].value = "[{\"duration\":-1e999}]")
                => musicQueue = << Obj(<< <<K_duration, NegInfinity>> >>) >>

C16_Witness ==
    /\ AfterLoad
    /\ knownVersion = 1
    /\ remote["music_queue"].value = Stringify(RequestObj(1))
    /\ musicQueue = <<>>

\* C17: the head of the queue is the entry being played.  In every state
\* with isPlaying set the queue is non-empty and its first element is
\* currentSong (after an append, a failed write or a conflict as well); a
\* cycle that starts a song ends Playing with the deadline one song length
\* after the clock reading and has removed nothing but what finished; and a
\* cycle that began Playing and saw no deadline reached ends Playing the
\* same entry with the same deadline and nothing removed.
C17_HeadIsCurrent ==
    /\ isPlaying => (musicQueue # <<>> /\ musicQueue[1] = currentSong)
    /\ (pc = "sleep" /\ cyc.starts = 1) =>
          /\ isPlaying
          /\ playingUntil = Num(now + SongMs)
          /\ shifts = cyc.shifts0 + cyc.finishes
    /\ (pc = "sleep" /\ cyc.wasPlaying /\ cyc.finishes = 0) =>
          /\ isPlaying
          /\ currentSong = cyc.current
          /\ playingUntil = cyc.deadline
          /\ shifts = cyc.shifts0

C17_Witness ==
    /\ pc = "sleep"
    /\ cyc.wasPlaying
    /\ isPlaying
    /\ cyc.pushes = 1
    /\ cyc.conflict
    /\ Len(musicQueue) = 2
    /\ currentSong = musicQueue[1]

\* C18: a remote call that failed in transport is not issued again in the
\* same cycle.  A cycle reads music_queue at most once, and a cycle whose
\* clear of bot_inbox failed without a version conflict issues no second
\* PUT of bot_inbox.
C18_NoReissueInCycle ==
    /\ cyc.queueGets <= 1
    /\ cyc.transport => cyc.clearPuts <= 1

\* the cycle's read of bot_inbox returned nothing to process: the object
\* is absent, the read failed, or the value is empty
InboxReadEmpty ==
    /\ pc \notin {"load", "fetch_inbox", "fetch_queue"}
    /\ (~storage.bot_inbox.found \/ storage.bot_inbox.value = EmptyStr)

\* C19: a cycle with nothing to do writes nothing.  When the read of
\* bot_inbox returned nothing to process, the inbox step issues no PUT of
\* bot_inbox or music_queue, calls no resolver and pushes nothing; when in
\* addition no song finished in the cycle, the cycle issues no PUT at all
\* and the local queue is what it was.
C19_QuietCycle ==
    /\ InboxReadEmpty =>
          /\ cyc.clearPuts = 0
          /\ cyc.resolverCalls = 0
          /\ cyc.pushes = 0
          /\ cyc.queuePuts = 0
          /\ request = NoRequest
    /\ (pc = "sleep" /\ InboxReadEmpty /\ cyc.finishes = 0) =>
          /\ cyc.popPuts = 0
          /\ shifts = cyc.shifts0
          /\ musicQueue = SubSeq(entered, cyc.shifts0 + 1, Len(entered))

C19_Witness ==
    /\ pc = "sleep"
    /\ storage.bot_inbox.found
    /\ storage.bot_inbox.value = EmptyStr
    /\ cyc.finishes = 0
    /\ cyc.wasPlaying
    /\ isPlaying
    /\ Len(musicQueue) = 2

\* C20: the bot never erases a request it has not read.  Every step other
\* than a write of the producer that changes a non-empty bot_inbox is a
\* clear of the very request the cycle's read returned: a request written
\* after that read makes both the clear on the main path and the clear of
\* the failure handler fail, and stays in the inbox.
C20_NoUnreadErased ==
    [][(/\ nextReq' = nextReq
        /\ remote["bot_inbox"].value # ""
        /\ remote'["bot_inbox"] # remote["bot_inbox"])
          => (/\ inboxReq = cyc.readReq
              /\ storage.bot_inbox.value = Str(remote["bot_inbox"].value)
              /\ remote'["bot_inbox"].value = "")]_vars

C20_Witness ==
    /\ pc = "sleep"
    /\ cyc.readReq = 1
    /\ cyc.clearPuts = 2
    /\ inboxReq = 2
    /\ remote["bot_inbox"].value = InboxText("json", 2)
    /\ pushedReqs = <<>>

\* the k-th entry that entered musicQueue is at its head
EntryAtHead(k) == Len(entered) >= k /\ shifts = k - 1

\* ... and is the current entry
EntryIsCurrent(k) == EntryAtHead(k) /\ isPlaying /\ currentSong = entered[k]

\* ... and has been removed
EntryRemoved(k) == shifts >= k

\* the clock of the model reaches the deadline of the current entry
DeadlineInRange == playingUntil.t = "number" /\ playingUntil.n <= MaxPlayClock

\* the entries that can enter: one restored, and the requests
MaxEntered == 1 + MaxPlayRequests

\* C21: every entry that enters the local queue is played and removed, in
\* queue order, whatever reads and writes of music_queue fail or conflict.
\* musicQueue is always the entries that entered less the ones removed
\* from its head; an entry is removed only while it is the current entry;
\* every entry at the head becomes the current entry; and every current
\* entry whose deadline the clock reaches is removed.
C21_EveryEntryPlayed ==
    /\ [](/\ shifts <= Len(entered)
          /\ musicQueue = SubSeq(entered, shifts + 1, Len(entered)))
    /\ [][shifts' # shifts =>
             (shifts' = shifts + 1 /\ EntryIsCurrent(shifts + 1))]_vars
    /\ \A k \in 1..MaxEntered :
          /\ [](EntryAtHead(k) => <>EntryIsCurrent(k))
          /\ []((EntryIsCurrent(k) /\ DeadlineInRange) => <>EntryRemoved(k))

\* two requested songs have been played and removed, the second in a cycle
\* whose PUT of the queue met a version conflict
C21_Witness ==
    /\ pc = "sleep"
    /\ Len(entered) = 2
    /\ shifts = 2
    /\ entered[1] # Null
    /\ entered[2] # Null
    /\ cyc.finishes = 1
    /\ cyc.popPuts = 1
    /\ ~cyc.popOk
    /\ VersionConflict("music_queue", QueueVersion)

====
